---- MODULE Spec2Model ----
(***************************************************************************)
(* Model of src/main.py: the Streamlit "Demographic-Aware Communication    *)
(* Hub".  Two parts:                                                       *)
(*   - analyze_communication_style, a pure keyword heuristic over a text   *)
(*     (texts are sequences of one-character strings, so that Python's     *)
(*     substring test `word in text.lower()`, str.split('.') and           *)
(*     str.split() are computed as the code computes them);                *)
(*   - the session state machine: one action per script run of main(),     *)
(*     i.e. per UI interaction (feature selected, form inputs, at most one *)
(*     button pressed), plus the cached model load.                        *)
(***************************************************************************)
EXTENDS Integers, Sequences, FiniteSets, TLC

VARIABLES
  model_loaded,            \* st.session_state.model_loaded
  granite_components,      \* st.session_state.granite_components (or NotSet)
  conversation_history,    \* st.session_state.conversation_history
  user_profiles,           \* st.session_state.user_profiles
  communication_analytics, \* st.session_state.communication_analytics
  cache,                   \* st.cache_resource entry of load_granite_model
  loads,                   \* number of executions of load_granite_model's body
  run,                     \* the latest script run: widgets, button, outputs
  text,                    \* argument of analyze_communication_style
  analysis                 \* its returned dictionary (or NoAnalysis)

vars == <<model_loaded, granite_components, conversation_history,
          user_profiles, communication_analytics, cache, loads, run, text,
          analysis>>

session == <<model_loaded, granite_components, conversation_history,
             user_profiles, communication_analytics>>

----------------------------------------------------------------------------
(* Bounds of the model *)
MaxItems == 2     \* vocabulary items appended to a generated text
MaxPad == 21      \* filler words at the start of a generated text
MaxStored == 2    \* records held by the three session collections together

----------------------------------------------------------------------------
(* Texts: sequences of one-character strings *)

w_please == <<"p","l","e","a","s","e">>
w_thank_you == <<"t","h","a","n","k"," ","y","o","u">>
w_regards == <<"r","e","g","a","r","d","s">>
w_sincerely == <<"s","i","n","c","e","r","e","l","y">>
w_respectfully == <<"r","e","s","p","e","c","t","f","u","l","l","y">>
w_hey == <<"h","e","y">>
w_yeah == <<"y","e","a","h">>
w_cool == <<"c","o","o","l">>
w_awesome == <<"a","w","e","s","o","m","e">>
w_thanks == <<"t","h","a","n","k","s">>
w_great == <<"g","r","e","a","t">>
w_excellent == <<"e","x","c","e","l","l","e","n","t">>
w_wonderful == <<"w","o","n","d","e","r","f","u","l">>
w_amazing == <<"a","m","a","z","i","n","g">>
w_fantastic == <<"f","a","n","t","a","s","t","i","c">>
w_bad == <<"b","a","d">>
w_terrible == <<"t","e","r","r","i","b","l","e">>
w_awful == <<"a","w","f","u","l">>
w_disappointing == <<"d","i","s","a","p","p","o","i","n","t","i","n","g">>
w_poor == <<"p","o","o","r">>

formal_indicators ==
  <<w_please, w_thank_you, w_regards, w_sincerely, w_respectfully>>
informal_indicators == <<w_hey, w_yeah, w_cool, w_awesome, w_thanks>>
positive_words ==
  <<w_great, w_excellent, w_wonderful, w_amazing, w_fantastic>>
negative_words == <<w_bad, w_terrible, w_awful, w_disappointing, w_poor>>

\* str.lower() on the characters of the model's alphabet
LowerChar(c) ==
  CASE c = "P" -> "p"
    [] c = "H" -> "h"
    [] c = "G" -> "g"
    [] OTHER -> c

Lower(t) == [i \in 1..Len(t) |-> LowerChar(t[i])]

\* Python's `w in t` for strings: w occurs in t as a contiguous substring
Contains(t, w) ==
  \E i \in 0..(Len(t) - Len(w)) : \A j \in 1..Len(w) : t[i + j] = w[j]

\* a plausible slip: every occurrence of a word counted (text.count(word))
RECURSIVE CountFrom_occurrences(_, _, _)
CountFrom_occurrences(words, t, k) ==
  IF k > Len(words) THEN 0
  ELSE Cardinality({i \in 0..(Len(t) - Len(words[k])) :
                      \A j \in 1..Len(words[k]) :
                         LowerChar(t[i + j]) = words[k][j]})
       + CountFrom_occurrences(words, t, k + 1)

\* sum(1 for word in words if word in text.lower())
RECURSIVE CountFrom(_, _, _)
CountFrom(words, t, k) ==
  IF k > Len(words) THEN 0
  ELSE (IF Contains(Lower(t), words[k]) THEN 1 ELSE 0)
       + CountFrom(words, t, k + 1)

IndicatorCount(words, t) == CountFrom(words, t, 1)

\* text.split('.'): the pieces between the full stops; always at least one
SplitDot(t) ==
  LET dots == {i \in 1..Len(t) : t[i] = "."}
      n == Cardinality(dots)
      \* the position of the k-th full stop; 0 and Len(t)+1 bracket the text
      cut(k) == IF k = 0 THEN 0
                ELSE IF k = n + 1 THEN Len(t) + 1
                ELSE CHOOSE i \in dots :
                       Cardinality({j \in dots : j <= i}) = k
  IN [k \in 1..(n + 1) |-> SubSeq(t, cut(k - 1) + 1, cut(k) - 1)]

\* len(s.split()): the number of maximal runs of non-whitespace characters
WordCount(s) ==
  Cardinality({i \in 1..Len(s) :
                 s[i] # " " /\ (i = 1 \/ s[i - 1] = " ")})

RECURSIVE SumWords(_, _)
SumWords(segs, k) ==
  IF k > Len(segs) THEN 0 ELSE WordCount(segs[k]) + SumWords(segs, k + 1)

\* a plausible slip: a tie counted as formal
Formality_tie_formal(formal_count, informal_count) ==
  IF formal_count >= informal_count THEN "formal"
  ELSE IF informal_count > formal_count THEN "informal"
  ELSE "neutral"

Formality(formal_count, informal_count) ==
  IF formal_count > informal_count THEN "formal"
  ELSE IF informal_count > formal_count THEN "informal"
  ELSE "neutral"

\* a plausible slip: the two branches' labels exchanged
Tone_swapped(positive_count, negative_count) ==
  IF positive_count > negative_count THEN "negative"
  ELSE IF negative_count > positive_count THEN "positive"
  ELSE "neutral"

Tone(positive_count, negative_count) ==
  IF positive_count > negative_count THEN "positive"
  ELSE IF negative_count > positive_count THEN "negative"
  ELSE "neutral"

\* avg_sentence_length as the exact fraction num/den:
\* sum(len(s.split()) for s in sentences) / len(sentences) if sentences else 0
avg_sentence_length(sentences) ==
  IF Len(sentences) > 0
  THEN [num |-> SumWords(sentences, 1), den |-> Len(sentences)]
  ELSE [num |-> 0, den |-> 1]

\* a plausible slip: a text without words keeps the initial 'medium'
Complexity_default_medium(avg) ==
  IF avg.num > 20 * avg.den THEN "high"
  ELSE IF avg.num > 0 /\ avg.num < 10 * avg.den THEN "low"
  ELSE "medium"

\* avg > 20 is num > 20*den and avg < 10 is num < 10*den (den > 0; the
\* float quotient of these small integers is never rounded across 10 or 20)
Complexity(avg) ==
  IF avg.num > 20 * avg.den THEN "high"
  ELSE IF avg.num < 10 * avg.den THEN "low"
  ELSE "medium"

analyze_communication_style(t) ==
  LET sentences == SplitDot(t)
  IN [formality |-> Formality(IndicatorCount(formal_indicators, t),
                              IndicatorCount(informal_indicators, t)),
      tone |-> Tone(IndicatorCount(positive_words, t),
                    IndicatorCount(negative_words, t)),
      complexity |-> Complexity(avg_sentence_length(sentences)),
      key_phrases |-> <<>>,
      sentiment |-> "neutral"]

----------------------------------------------------------------------------
(* Session state after lines 84-91, before the first script run *)

NotSet == <<>>     \* a tuple-valued attribute or cache entry that is absent
None == "None"
EmptyDict == [n \in {} |-> None]

\* analyze_communication_style not yet applied
NoAnalysis ==
  [formality |-> None, tone |-> None, complexity |-> None,
   key_phrases |-> <<>>, sentiment |-> None]
InitSession ==
  /\ model_loaded = FALSE
  /\ granite_components = NotSet
  /\ conversation_history = <<>>
  /\ user_profiles = EmptyDict
  /\ communication_analytics = <<>>

----------------------------------------------------------------------------
(* The model load (lines 93-108) and generate_response (lines 110-153) *)

\* what AutoTokenizer/AutoModelForCausalLM.from_pretrained and .to(device) do
LoadOutcomes ==
  {[raised |-> FALSE, device |-> "cuda"], [raised |-> FALSE, device |-> "cpu"],
   [raised |-> TRUE, device |-> None]}

\* the body of load_granite_model: the components, or (None, None, None)
LoadBody(lo) ==
  IF lo.raised THEN <<None, None, None>>
  ELSE <<"tokenizer", "model", lo.device>>

\* a plausible slip: a failed load is not kept by the cache
CacheAfter_retry(lo) ==
  IF cache # NotSet THEN cache
  ELSE IF lo.raised THEN NotSet ELSE LoadBody(lo)

\* @st.cache_resource: the first call runs the body and keeps what it
\* returned, every later call returns the kept value
CacheAfter(lo) == IF cache = NotSet THEN LoadBody(lo) ELSE cache

\* the value load_granite_model() returns to main
load_granite_model(lo) == IF cache = NotSet THEN LoadBody(lo) ELSE cache

LoadsAfter == IF cache = NotSet THEN loads + 1 ELSE loads

\* the load outcomes that matter in the current state
LoadChoices ==
  IF model_loaded \/ cache # NotSet THEN {[raised |-> TRUE, device |-> None]}
  ELSE LoadOutcomes

\* a plausible slip: the flag is set whatever the load returned
LoadSucceeds_unchecked(lo) == TRUE

\* `if tokenizer and model:`
LoadSucceeds(lo) ==
  load_granite_model(lo)[1] # None /\ load_granite_model(lo)[2] # None

LoadNote(lo) ==
  IF model_loaded THEN "not called"
  ELSE IF cache = NotSet
       THEN (IF lo.raised THEN "failed" ELSE "loaded")
       ELSE (IF LoadSucceeds(lo) THEN "cached components" ELSE "cached failure")

s_model_not_available == <<"M","o","d","e","l"," ","n","o","t"," ","a","v","a","i","l","a","b","l","e">>
s_error_prefix == <<"E","r","r","o","r"," ","g","e","n","e","r","a","t","i","n","g"," ","r","e","s","p","o","n","s","e",":"," ">>
s_no_components == <<"g","r","a","n","i","t","e","_","c","o","m","p","o","n","e","n","t","s">>

\* str.strip()
Strip(t) ==
  LET solid == {i \in 1..Len(t) : t[i] # " "}
  IN IF solid = {} THEN <<>>
     ELSE SubSeq(t, CHOOSE i \in solid : \A j \in solid : i <= j,
                    CHOOSE i \in solid : \A j \in solid : i >= j)

\* what the tokenizer and model.generate do in one call: the decoded text,
\* or an exception with its message
GenOutcomes ==
  {[raised |-> FALSE, text |-> <<" ","o","k"," ">>],
   [raised |-> TRUE, text |-> <<"o","o","m">>]}

\* a plausible slip: the bare exception message is returned
generate_response_bare(out) ==
  IF ~model_loaded THEN s_model_not_available
  ELSE IF granite_components = NotSet THEN s_no_components
  ELSE IF out.raised THEN out.text
  ELSE Strip(out.text)

\* a plausible slip: no check of model_loaded before the attempt
generate_response_unguarded(out) ==
  IF granite_components = NotSet THEN s_error_prefix \o s_no_components
  ELSE IF out.raised THEN s_error_prefix \o out.text
  ELSE Strip(out.text)

\* generate_response(prompt, ...): the value returned.  The prompt only
\* feeds the model, whose behaviour is the outcome `out`.
generate_response(out) ==
  IF ~model_loaded THEN s_model_not_available
  ELSE IF granite_components = NotSet
       THEN s_error_prefix \o s_no_components   \* the unpacking at 117 raises
  ELSE IF out.raised THEN s_error_prefix \o out.text
  ELSE Strip(out.text)

----------------------------------------------------------------------------
(* Script runs of main() *)

F_Composer == "Smart Message Composer"
F_Profiler == "Demographic Profiler"
F_Optimizer == "Conversation Optimizer"
F_Analytics == "Communication Analytics"
F_Cultural == "Cultural Adaptation Engine"
F_ToneAnalyzer == "Message Tone Analyzer"

B_None == "no button"
B_Optimize == "Optimize Message"
B_Profile == "Generate Profile Analysis"
B_Suggest == "Get Suggestions"
B_Tone == "Analyze Tone"
B_Adapt == "Generate Cultural Adaptations"
B_Analyze == "Analyze Message"

NoView == [metrics |-> <<>>, recent |-> <<>>, notice |-> FALSE]

\* no script run yet in this session
NoRun ==
  [feature |-> "none", button |-> B_None, inputs |-> <<>>,
   outcomes |-> <<>>, responses |-> <<>>, metrics |-> NoAnalysis,
   rendered |-> FALSE, form |-> FALSE, load |-> "no run", view |-> NoView]

\* a run that reached the sidebar and rendered `feature`
Rendered(feature, button, inputs, outs, resps, metrics, form, note, view) ==
  [feature |-> feature, button |-> button, inputs |-> inputs,
   outcomes |-> outs, responses |-> resps, metrics |-> metrics,
   rendered |-> TRUE, form |-> form, load |-> note, view |-> view]

Stored ==
  Len(conversation_history) + Cardinality(DOMAIN user_profiles)
    + Len(communication_analytics)

\* the reading of datetime.now(); it is stored and displayed, and no
\* handler branches on it
Times == {0}

\* lines 205-211 of a run that goes on to the sidebar: the model is loaded
\* already, or the (cached) load gives no components
Prelude(lo) ==
  /\ model_loaded \/ ~LoadSucceeds(lo)
  /\ IF model_loaded THEN UNCHANGED <<cache, loads>>
     ELSE cache' = CacheAfter(lo) /\ loads' = LoadsAfter
  /\ UNCHANGED <<model_loaded, granite_components>>

\* The widgets a run can carry.  The first run of a session, and the run
\* st.rerun() starts, show the first feature with every widget at its
\* default and no button pressed; a button can be pressed only where the
\* previous run rendered it.
CanShow(feature, isDefault) ==
  run.rendered \/ (feature = F_Composer /\ isDefault)

CanPress(feature) == run.rendered /\ run.feature = feature /\ run.form

\* lines 205-211 when the load gives the components: they are stored,
\* model_loaded is set and st.rerun() ends the run before the sidebar
LoadRun(lo) ==
  /\ ~model_loaded
  /\ LoadSucceeds(lo)
  /\ granite_components' = load_granite_model(lo)
  /\ model_loaded' = TRUE
  /\ cache' = CacheAfter(lo)
  /\ loads' = LoadsAfter
  /\ run' = [NoRun EXCEPT !.load = LoadNote(lo)]
  /\ UNCHANGED <<conversation_history, user_profiles,
                 communication_analytics, text, analysis>>

----------------------------------------------------------------------------
(* Inputs of analyze_communication_style: MaxPad or fewer filler words      *)
(* followed by MaxItems or fewer vocabulary items, joined by single spaces. *)

w_filler == <<"w">>
w_Please == <<"P","l","e","a","s","e">>
w_they == <<"t","h","e","y">>
w_stop == <<".">>

w_hey_hey == <<"h", "e", "y", " ", "h", "e", "y">>

Vocabulary ==
  {w_Please, w_thank_you, w_hey, w_hey_hey, w_they, w_great, w_bad, w_stop}

RECURSIVE Join(_)
Join(ws) ==
  IF Len(ws) = 0 THEN <<>>
  ELSE IF Len(ws) = 1 THEN ws[1]
  ELSE ws[1] \o <<" ">> \o Join(Tail(ws))

Pad(k) == [i \in 1..k |-> w_filler]

ItemSeqs == UNION {[1..n -> Vocabulary] : n \in 0..MaxItems}

Texts == {Join(Pad(k) \o items) : k \in 0..MaxPad, items \in ItemSeqs}

InitStyle ==
  /\ InitSession
  /\ cache = NotSet
  /\ loads = 0
  /\ run = NoRun
  /\ text \in Texts
  /\ analysis = NoAnalysis

\* one call analyze_communication_style(text)
Analyze ==
  /\ analysis = NoAnalysis
  /\ analysis' = analyze_communication_style(text)
  /\ UNCHANGED <<session, cache, loads, run, text>>

NextStyle == Analyze

SpecStyle == InitStyle /\ [][NextStyle]_vars

----------------------------------------------------------------------------
(* Feature 1: Smart Message Composer, lines 229-292 *)

\* the form as submitted: message type, target demographics, draft
ComposerForms ==
  {<<"Professional Email", <<>>, <<>>>>,
   <<"Professional Email", <<>>, <<"h","i">>>>,
   <<"Marketing Copy", <<"Students">>, <<"h","i">>>>}

\* a plausible slip: the list is rebuilt around the new record
HistoryAfter_only_latest(record) == <<record>>

\* a plausible slip: a failed generation is shown but not recorded
HistoryAfter_skip_errors(record) ==
  IF /\ Len(record.optimized) >= Len(s_error_prefix)
     /\ SubSeq(record.optimized, 1, Len(s_error_prefix)) = s_error_prefix
  THEN conversation_history
  ELSE Append(conversation_history, record)

\* st.session_state.conversation_history.append(record)
HistoryAfter(record) == Append(conversation_history, record)

\* a plausible slip: the press is acted on without looking at model_loaded
ComposerRun_unguarded(button, message_type, target_demographic, user_input, lo) ==
  LET inputs == [message_type |-> message_type,
                 target_demographic |-> target_demographic,
                 user_input |-> user_input]
      isDefault == /\ message_type = "Professional Email"
                   /\ target_demographic = <<>>
                   /\ user_input = <<>>
  IN
  /\ button \in {B_None, B_Optimize}
  /\ IF button = B_None THEN CanShow(F_Composer, isDefault)
     ELSE CanPress(F_Composer)
  /\ Prelude(lo)
  /\ IF button = B_Optimize /\ user_input # <<>>
     THEN /\ Stored < MaxStored
          /\ \E out \in GenOutcomes, t \in Times :
               LET optimized_message == generate_response(out) IN
               /\ conversation_history' =
                    HistoryAfter([timestamp |-> t,
                                  original |-> user_input,
                                  optimized |-> optimized_message,
                                  demographics |-> target_demographic,
                                  type |-> message_type])
               /\ run' = Rendered(F_Composer, button, inputs, <<out>>,
                                  <<optimized_message>>, NoAnalysis, TRUE,
                                  LoadNote(lo), NoView)
     ELSE /\ UNCHANGED conversation_history
          /\ run' = Rendered(F_Composer, button, inputs, <<>>, <<>>,
                             NoAnalysis, TRUE, LoadNote(lo), NoView)
  /\ UNCHANGED <<user_profiles, communication_analytics, text, analysis>>

\* the handler, storing while fewer than cap records are stored
ComposerStep(cap, button, message_type, target_demographic, user_input, lo) ==
  LET inputs == [message_type |-> message_type,
                 target_demographic |-> target_demographic,
                 user_input |-> user_input]
      isDefault == /\ message_type = "Professional Email"
                   /\ target_demographic = <<>>
                   /\ user_input = <<>>
  IN
  /\ button \in {B_None, B_Optimize}
  /\ IF button = B_None THEN CanShow(F_Composer, isDefault)
     ELSE CanPress(F_Composer)
  /\ Prelude(lo)
  /\ IF button = B_Optimize /\ user_input # <<>> /\ model_loaded
     THEN /\ Stored < cap
          /\ \E out \in GenOutcomes, t \in Times :
               LET optimized_message == generate_response(out) IN
               /\ conversation_history' =
                    HistoryAfter([timestamp |-> t,
                                  original |-> user_input,
                                  optimized |-> optimized_message,
                                  demographics |-> target_demographic,
                                  type |-> message_type])
               /\ run' = Rendered(F_Composer, button, inputs, <<out>>,
                                  <<optimized_message>>, NoAnalysis, TRUE,
                                  LoadNote(lo), NoView)
     ELSE /\ UNCHANGED conversation_history
          /\ run' = Rendered(F_Composer, button, inputs, <<>>, <<>>,
                             NoAnalysis, TRUE, LoadNote(lo), NoView)
  /\ UNCHANGED <<user_profiles, communication_analytics, text, analysis>>

ComposerRun(button, message_type, target_demographic, user_input, lo) ==
  ComposerStep(MaxStored, button, message_type, target_demographic,
               user_input, lo)

(* Feature 2: Demographic Profiler, lines 295-357 *)

\* the form as submitted: profile name, age group
ProfilerForms ==
  {<<"", "18-25">>, <<"Tech Startup Audience", "18-25">>,
   <<"Tech Startup Audience", "26-35">>, <<"Retirees", "18-25">>}

demographics_of(age_group) ==
  [age_group |-> age_group, education |-> "High School",
   profession |-> "Student", location |-> "Urban", tech_savviness |-> 5,
   communication_preference |-> "Direct"]

\* a plausible slip: a name already saved keeps its first record
ProfilesAfter_keep_first(profile_name, record) ==
  [n \in DOMAIN user_profiles \cup {profile_name} |->
     IF n \in DOMAIN user_profiles THEN user_profiles[n] ELSE record]

\* st.session_state.user_profiles[profile_name] = record
ProfilesAfter(profile_name, record) ==
  [n \in DOMAIN user_profiles \cup {profile_name} |->
     IF n = profile_name THEN record ELSE user_profiles[n]]

ProfilerRun(button, profile_name, age_group, lo) ==
  LET demographics == demographics_of(age_group)
      cultural_notes == <<>>
      inputs == [profile_name |-> profile_name,
                 demographics |-> demographics,
                 cultural_notes |-> cultural_notes]
  IN
  /\ button \in {B_None, B_Profile}
  /\ IF button = B_None THEN CanShow(F_Profiler, FALSE)
     ELSE CanPress(F_Profiler)
  /\ Prelude(lo)
  /\ IF button = B_Profile /\ profile_name # "" /\ model_loaded
     THEN /\ profile_name \in DOMAIN user_profiles \/ Stored < MaxStored
          /\ \E out \in GenOutcomes, t \in Times :
               LET profile_analysis == generate_response(out) IN
               /\ user_profiles' =
                    ProfilesAfter(profile_name,
                                  [demographics |-> demographics,
                                   cultural_notes |-> cultural_notes,
                                   analysis |-> profile_analysis,
                                   created |-> t])
               /\ run' = Rendered(F_Profiler, button, inputs, <<out>>,
                                  <<profile_analysis>>, NoAnalysis, TRUE,
                                  LoadNote(lo), NoView)
     ELSE /\ UNCHANGED user_profiles
          /\ run' = Rendered(F_Profiler, button, inputs, <<>>, <<>>,
                             NoAnalysis, TRUE, LoadNote(lo), NoView)
  /\ UNCHANGED <<conversation_history, communication_analytics, text,
                 analysis>>

(* Feature 3: Conversation Optimizer, lines 360-442 *)

ProfileOptions == {"Use Existing Profile", "Quick Profile Setup"}
Messages == {<<>>, w_Please}

\* `if current_profile:`: a saved profile is selected, or the quick profile
\* is filled in; with no saved profile there is only the warning
HasCurrentProfile(profile_option) ==
  IF profile_option = "Use Existing Profile"
  THEN DOMAIN user_profiles # {}
  ELSE TRUE

\* a plausible slip: the suggestions are filed like an optimized message
OptimizerRun_recording(button, profile_option, your_message, lo) ==
  LET inputs == [profile_option |-> profile_option,
                 your_message |-> your_message]
      form == HasCurrentProfile(profile_option)
  IN
  /\ button \in {B_None, B_Suggest, B_Tone}
  /\ IF button = B_None THEN CanShow(F_Optimizer, FALSE)
     ELSE /\ CanPress(F_Optimizer)
          /\ profile_option = run.inputs.profile_option
  /\ Prelude(lo)
  /\ IF button = B_Suggest /\ your_message # <<>> /\ model_loaded
     THEN \E out \in GenOutcomes, t \in Times :
            /\ Stored < MaxStored
            /\ conversation_history' =
                 HistoryAfter([timestamp |-> t, original |-> your_message,
                               optimized |-> generate_response(out),
                               demographics |-> <<>>,
                               type |-> "Professional Email"])
            /\ run' = Rendered(F_Optimizer, button, inputs, <<out>>,
                               <<generate_response(out)>>, NoAnalysis, form,
                               LoadNote(lo), NoView)
     ELSE IF button = B_Tone /\ your_message # <<>>
     THEN /\ run' = Rendered(F_Optimizer, button, inputs, <<>>, <<>>,
                             analyze_communication_style(your_message), form,
                             LoadNote(lo), NoView)
          /\ UNCHANGED conversation_history
     ELSE /\ run' = Rendered(F_Optimizer, button, inputs, <<>>, <<>>,
                             NoAnalysis, form, LoadNote(lo), NoView)
          /\ UNCHANGED conversation_history
  /\ UNCHANGED <<user_profiles, communication_analytics, text, analysis>>

OptimizerRun(button, profile_option, your_message, lo) ==
  LET inputs == [profile_option |-> profile_option,
                 your_message |-> your_message]
      form == HasCurrentProfile(profile_option)
  IN
  /\ button \in {B_None, B_Suggest, B_Tone}
  /\ IF button = B_None THEN CanShow(F_Optimizer, FALSE)
     ELSE /\ CanPress(F_Optimizer)
          /\ profile_option = run.inputs.profile_option
  /\ Prelude(lo)
  /\ IF button = B_Suggest /\ your_message # <<>> /\ model_loaded
     THEN \E out \in GenOutcomes :
            run' = Rendered(F_Optimizer, button, inputs, <<out>>,
                            <<generate_response(out)>>, NoAnalysis, form,
                            LoadNote(lo), NoView)
     ELSE IF button = B_Tone /\ your_message # <<>>
     THEN run' = Rendered(F_Optimizer, button, inputs, <<>>, <<>>,
                          analyze_communication_style(your_message), form,
                          LoadNote(lo), NoView)
     ELSE run' = Rendered(F_Optimizer, button, inputs, <<>>, <<>>,
                          NoAnalysis, form, LoadNote(lo), NoView)
  /\ UNCHANGED <<conversation_history, user_profiles,
                 communication_analytics, text, analysis>>

(* Feature 4: Communication Analytics, lines 445-523 *)

RecentLimit == 10

Reverse(q) == [i \in 1..Len(q) |-> q[Len(q) + 1 - i]]

\* a plausible slip: the first ten records, conversation_history[:10]
LastRecords_first(q) ==
  IF Len(q) <= RecentLimit THEN q ELSE SubSeq(q, 1, RecentLimit)

\* conversation_history[-10:]
LastRecords(q) ==
  IF Len(q) <= RecentLimit THEN q
  ELSE SubSeq(q, Len(q) - RecentLimit + 1, Len(q))

Dashboard ==
  IF conversation_history # <<>>
  THEN [metrics |-> <<Len(conversation_history)>>,
        recent |-> Reverse(LastRecords(conversation_history)),
        notice |-> FALSE]
  ELSE [metrics |-> <<>>, recent |-> <<>>, notice |-> TRUE]

AnalyticsRun(lo) ==
  /\ CanShow(F_Analytics, FALSE)
  /\ Prelude(lo)
  /\ run' = Rendered(F_Analytics, B_None, <<>>, <<>>, <<>>, NoAnalysis,
                     TRUE, LoadNote(lo), Dashboard)
  /\ UNCHANGED <<conversation_history, user_profiles,
                 communication_analytics, text, analysis>>

(* Feature 5: Cultural Adaptation Engine, lines 526-590 *)

\* the form as submitted: original message, target cultures
CulturalForms ==
  {<<<<>>, <<"East Asia">>>>, <<w_Please, <<>>>>,
   <<w_Please, <<"East Asia", "Africa">>>>}

CulturalRun(button, source_message, target_cultures, lo) ==
  LET inputs == [source_message |-> source_message,
                 target_cultures |-> target_cultures]
  IN
  /\ button \in {B_None, B_Adapt}
  /\ IF button = B_None THEN CanShow(F_Cultural, FALSE)
     ELSE CanPress(F_Cultural)
  /\ Prelude(lo)
  /\ IF /\ button = B_Adapt
        /\ source_message # <<>>
        /\ target_cultures # <<>>
        /\ model_loaded
     THEN \E outs \in [1..Len(target_cultures) -> GenOutcomes] :
            run' = Rendered(F_Cultural, button, inputs, outs,
                            [k \in 1..Len(outs) |-> generate_response(outs[k])],
                            NoAnalysis, TRUE, LoadNote(lo), NoView)
     ELSE run' = Rendered(F_Cultural, button, inputs, <<>>, <<>>,
                          NoAnalysis, TRUE, LoadNote(lo), NoView)
  /\ UNCHANGED <<conversation_history, user_profiles,
                 communication_analytics, text, analysis>>

(* Feature 6: Message Tone Analyzer, lines 593-700 *)

SnippetLimit == 100

s_ellipsis == <<".", ".", ".">>

\* a plausible slip: a text of exactly 100 characters is cut as well
Snippet_inclusive(t) ==
  IF Len(t) >= SnippetLimit THEN SubSeq(t, 1, SnippetLimit) \o s_ellipsis
  ELSE t

\* analysis_text[:100] + "..." if len(analysis_text) > 100 else analysis_text
Snippet(t) ==
  IF Len(t) > SnippetLimit THEN SubSeq(t, 1, SnippetLimit) \o s_ellipsis
  ELSE t

\* the first n characters of "w w w ..."
Filler(n) == [i \in 1..n |-> IF i % 2 = 1 THEN "w" ELSE " "]

\* no text, a short one, one of exactly 100 characters and one of 101
AnalysisTexts ==
  {<<>>, w_Please, Filler(SnippetLimit), Filler(SnippetLimit + 1)}

\* st.session_state.communication_analytics.append(record)
AnalyticsAfter(record) == Append(communication_analytics, record)

ToneAnalyzerRun(button, analysis_text, lo) ==
  LET inputs == [analysis_text |-> analysis_text] IN
  /\ button \in {B_None, B_Analyze}
  /\ IF button = B_None THEN CanShow(F_ToneAnalyzer, FALSE)
     ELSE CanPress(F_ToneAnalyzer)
  /\ Prelude(lo)
  /\ IF button = B_Analyze /\ analysis_text # <<>> /\ model_loaded
     THEN /\ Stored < MaxStored
          /\ \E out \in GenOutcomes, t \in Times :
               LET basic_analysis ==
                     analyze_communication_style(analysis_text)
                   detailed_analysis == generate_response(out)
               IN
               /\ communication_analytics' =
                    AnalyticsAfter([text |-> Snippet(analysis_text),
                                    analysis |-> detailed_analysis,
                                    metrics |-> basic_analysis,
                                    timestamp |-> t])
               /\ run' = Rendered(F_ToneAnalyzer, button, inputs, <<out>>,
                                  <<detailed_analysis>>, basic_analysis,
                                  TRUE, LoadNote(lo), NoView)
     ELSE /\ UNCHANGED communication_analytics
          /\ run' = Rendered(F_ToneAnalyzer, button, inputs, <<>>, <<>>,
                             NoAnalysis, TRUE, LoadNote(lo), NoView)
  /\ UNCHANGED <<conversation_history, user_profiles, text, analysis>>

----------------------------------------------------------------------------
(* One session of the application *)

Init ==
  /\ InitSession
  /\ cache = NotSet
  /\ loads = 0
  /\ run = NoRun
  /\ text = <<>>
  /\ analysis = NoAnalysis

LoadModel == \E lo \in LoadChoices : LoadRun(lo)

Composer ==
  \E lo \in LoadChoices, button \in {B_None, B_Optimize},
     form \in ComposerForms :
    ComposerRun(button, form[1], form[2], form[3], lo)

Profiler ==
  \E lo \in LoadChoices, button \in {B_None, B_Profile},
     form \in ProfilerForms :
    ProfilerRun(button, form[1], form[2], lo)

Optimizer ==
  \E lo \in LoadChoices,
     button \in {B_None, B_Suggest, B_Tone},
     profile_option \in ProfileOptions, your_message \in Messages :
    OptimizerRun(button, profile_option, your_message, lo)

Analytics == \E lo \in LoadChoices : AnalyticsRun(lo)

Cultural ==
  \E lo \in LoadChoices, button \in {B_None, B_Adapt},
     form \in CulturalForms :
    CulturalRun(button, form[1], form[2], lo)

ToneAnalyzer ==
  \E lo \in LoadChoices, button \in {B_None, B_Analyze},
     analysis_text \in AnalysisTexts :
    ToneAnalyzerRun(button, analysis_text, lo)

Next ==
  \/ LoadModel
  \/ Composer
  \/ Profiler
  \/ Optimizer
  \/ Analytics
  \/ Cultural
  \/ ToneAnalyzer

Spec == Init /\ [][Next]_vars

\* A new browser session of the same process: fresh st.session_state, the
\* st.cache_resource entry stays
NewSession ==
  /\ run.load # "no run"
  /\ model_loaded' = FALSE
  /\ granite_components' = NotSet
  /\ conversation_history' = <<>>
  /\ user_profiles' = EmptyDict
  /\ communication_analytics' = <<>>
  /\ run' = NoRun
  /\ UNCHANGED <<cache, loads, text, analysis>>

NextProcess == Next \/ NewSession

SpecProcess == Init /\ [][NextProcess]_vars

\* generate_response called while the model is not loaded (main itself
\* asks for model_loaded before every call)
B_Call == "direct call"

CallWhileUnavailable ==
  /\ ~model_loaded
  /\ \E out \in GenOutcomes :
       run' = [run EXCEPT !.button = B_Call, !.outcomes = <<out>>,
                          !.responses = <<generate_response(out)>>]
  /\ UNCHANGED <<session, cache, loads, text, analysis>>

NextCalls == Next \/ CallWhileUnavailable

SpecCalls == Init /\ [][NextCalls]_vars

(* A session that only composes messages and looks at the dashboard, with  *)
(* room for more records than the dashboard lists.                         *)

MaxHistory == 11

\* the default form and one draft
DashForms ==
  {<<"Professional Email", <<>>, <<>>>>,
   <<"Professional Email", <<>>, <<"h","i">>>>}

ComposerDash ==
  \E lo \in LoadChoices, button \in {B_None, B_Optimize},
     form \in DashForms :
    ComposerStep(MaxHistory, button, form[1], form[2], form[3], lo)

NextDash ==
  \/ LoadModel
  \/ ComposerDash
  \/ Analytics

SpecDash == Init /\ [][NextDash]_vars

----------------------------------------------------------------------------
(* Properties of analyze_communication_style, stated without the operators *)
(* of the model above.                                                     *)

Range(f) == {f[i] : i \in DOMAIN f}

\* w occurs in t
Occurs(w, t) ==
  \E i \in 1..(Len(t) - Len(w) + 1) : SubSeq(t, i, i + Len(w) - 1) = w

\* how many of the listed words the lower-cased text contains
Contained(words, t) ==
  LET lt == Lower(t) IN Cardinality({w \in Range(words) : Occurs(w, lt)})

Analysed == analysis # NoAnalysis

\* C1: formality is 'formal' when the text contains more of the formal
\* indicators than of the informal ones, 'informal' when it contains more of
\* the informal ones, and 'neutral' when it contains as many of each.
C1_Formality ==
  Analysed =>
    LET f == Contained(formal_indicators, text)
        i == Contained(informal_indicators, text)
    IN /\ f > i => analysis.formality = "formal"
       /\ i > f => analysis.formality = "informal"
       /\ f = i => analysis.formality = "neutral"

\* a text with two formal indicators and no informal one
C1_Witness ==
  /\ Analysed
  /\ Contained(formal_indicators, text) = 2
  /\ Contained(informal_indicators, text) = 0
  /\ analysis.formality = "formal"

\* C2: tone is 'positive', 'negative' or 'neutral' by the comparison of the
\* numbers of positive and negative words contained, whatever formality
\* indicators the text contains.
C2_Tone ==
  Analysed =>
    LET p == Contained(positive_words, text)
        n == Contained(negative_words, text)
    IN /\ p > n => analysis.tone = "positive"
       /\ n > p => analysis.tone = "negative"
       /\ p = n => analysis.tone = "neutral"

\* a negative word next to a formal indicator: tone negative, formality formal
C2_Witness ==
  /\ Analysed
  /\ Contained(negative_words, text) = 1
  /\ Contained(positive_words, text) = 0
  /\ Contained(formal_indicators, text) = 1
  /\ analysis.tone = "negative"
  /\ analysis.formality = "formal"

\* how often the listed words occur in the lower-cased text, all occurrences
\* of all the words together
Occurrences(words, t) ==
  LET lt == Lower(t)
  IN Cardinality({p \in (DOMAIN words) \X (1..Len(t)) :
                    /\ p[2] + Len(words[p[1]]) - 1 <= Len(t)
                    /\ SubSeq(lt, p[2], p[2] + Len(words[p[1]]) - 1)
                         = words[p[1]]})

\* what a category's count is when a word adds one however often it occurs
PresenceCount(words, t) ==
  LET lt == Lower(t)
      occ(k) == Cardinality({i \in 1..(Len(t) - Len(words[k]) + 1) :
                   SubSeq(lt, i, i + Len(words[k]) - 1) = words[k]})
  IN Cardinality({k \in DOMAIN words : occ(k) >= 1})

\* C11 as written: the counts compared are occurrence counts, so that a word
\* occurring k times adds k to its category; formality and tone follow the
\* comparison of the occurrence counts.
C11_OccurrenceCounts ==
  Analysed =>
    /\ analysis.formality = Formality(Occurrences(formal_indicators, text),
                                      Occurrences(informal_indicators, text))
    /\ analysis.tone = Tone(Occurrences(positive_words, text),
                            Occurrences(negative_words, text))

\* C11, amended: an indicator word adds one to its category's count when it
\* occurs in the text and nothing more when it occurs again; formality and
\* tone follow the comparison of these counts, so a word occurring k >= 1
\* times weighs as much as a word occurring once.
C11_PresenceCounts ==
  Analysed =>
    LET f == PresenceCount(formal_indicators, text)
        i == PresenceCount(informal_indicators, text)
        p == PresenceCount(positive_words, text)
        n == PresenceCount(negative_words, text)
    IN /\ analysis.formality =
            (IF f > i THEN "formal" ELSE IF i > f THEN "informal" ELSE "neutral")
       /\ analysis.tone =
            (IF p > n THEN "positive" ELSE IF n > p THEN "negative" ELSE "neutral")

\* 'hey' twice against 'please' once: one each, so the formality is neutral
C11_Witness ==
  /\ Analysed
  /\ Occurrences(informal_indicators, text) = 2
  /\ PresenceCount(informal_indicators, text) = 1
  /\ Occurrences(formal_indicators, text) = 1
  /\ analysis.formality = "neutral"

\* The sentences of a text: the pieces between full stops that hold a word
Sentences(t) == SelectSeq(SplitDot(t), LAMBDA s : WordCount(s) > 0)

\* C3: complexity is 'high' exactly when the average number of words per
\* sentence is greater than 20, 'low' exactly when it is less than 10, and
\* 'medium' otherwise (so at exactly 10 and at exactly 20).
C3_Complexity ==
  (Analysed /\ Len(Sentences(text)) > 0) =>
    LET n == Len(Sentences(text))
        total == SumWords(Sentences(text), 1)
    IN /\ (analysis.complexity = "high") <=> (total > 20 * n)
       /\ (analysis.complexity = "low") <=> (total < 10 * n)
       /\ (analysis.complexity = "medium") <=>
            (total >= 10 * n /\ total <= 20 * n)

\* C4 as stated: the empty text gives complexity 'medium', formality
\* 'neutral' and tone 'neutral'.
C4_EmptyMedium ==
  (Analysed /\ text = <<>>) =>
    /\ analysis.complexity = "medium"
    /\ analysis.formality = "neutral"
    /\ analysis.tone = "neutral"

\* C4 amended: the empty text gives a result (no error): complexity 'low',
\* formality 'neutral' and tone 'neutral'.
C4_EmptyLow ==
  (Analysed /\ text = <<>>) =>
    /\ analysis.complexity = "low"
    /\ analysis.formality = "neutral"
    /\ analysis.tone = "neutral"

C4_Witness == Analysed /\ text = <<>> /\ analysis.complexity = "low"

----------------------------------------------------------------------------
(* Properties of the session *)

Features ==
  {F_Composer, F_Profiler, F_Optimizer, F_Analytics, F_Cultural,
   F_ToneAnalyzer}

\* C5: every step leaves conversation_history unchanged or adds exactly one
\* record at its end; the records already there stay as they are, in place.
C5_AppendOnly ==
  [][\/ conversation_history' = conversation_history
     \/ /\ Len(conversation_history') = Len(conversation_history) + 1
        /\ SubSeq(conversation_history', 1, Len(conversation_history))
             = conversation_history]_vars

\* two different records, the second appended after the first
C5_Witness ==
  /\ Len(conversation_history) = 2
  /\ conversation_history[1] # conversation_history[2]
  /\ run.button = B_Optimize

\* the press of Generate Profile Analysis that saves: name given, model loaded
ProfileSaved(r, loaded) ==
  /\ r.button = B_Profile
  /\ r.inputs.profile_name # ""
  /\ loaded

\* C6: saving under name n makes user_profiles[n] the record just built
\* (whatever was stored under n before), leaves the records under the other
\* names as they were and adds n to the stored names; any other step leaves
\* user_profiles unchanged, so the stored names are the names ever saved.
C6_SaveProfile ==
  [][IF ProfileSaved(run', model_loaded)
     THEN LET n == run'.inputs.profile_name IN
          /\ DOMAIN user_profiles' = DOMAIN user_profiles \cup {n}
          /\ user_profiles'[n].demographics = run'.inputs.demographics
          /\ user_profiles'[n].cultural_notes = run'.inputs.cultural_notes
          /\ user_profiles'[n].analysis = run'.responses[1]
          /\ user_profiles'[n].created \in Times
          /\ \A m \in DOMAIN user_profiles \ {n} :
               user_profiles'[m] = user_profiles[m]
     ELSE user_profiles' = user_profiles]_vars

\* two names stored, the latest save being the one with the second age group
C6_Witness ==
  /\ Cardinality(DOMAIN user_profiles) = 2
  /\ ProfileSaved(run, model_loaded)
  /\ user_profiles[run.inputs.profile_name].demographics.age_group = "26-35"

\* C7: a failed load is kept as (None, None, None) and model_loaded stays
\* False; the run goes on to render the selected feature; and a call of
\* generate_response in that state returns 'Model not available'.
C7_LoadFailure ==
  /\ run.load \in {"failed", "cached failure"} =>
       /\ cache = <<None, None, None>>
       /\ run.rendered
       /\ run.feature \in Features
  /\ cache = <<None, None, None>> =>
       /\ ~model_loaded
       /\ granite_components = NotSet
  /\ (run.button = B_Call /\ ~model_loaded) =>
       run.responses = <<s_model_not_available>>

\* generate_response called after a failed load, a feature being on screen
C7_Witness ==
  /\ cache = <<None, None, None>>
  /\ run.button = B_Call
  /\ run.rendered
  /\ run.responses = <<s_model_not_available>>

\* C8: with the model loaded, a call whose generation raises returns
\* 'Error generating response: ' followed by the message; model_loaded and
\* the components stay as they are, and the calls after it return what
\* their own generation gives.
C8_GenerationFailure ==
  [][\A k \in 1..Len(run'.outcomes) :
       (run'.outcomes[k].raised /\ run'.button # B_Call) =>
         /\ run'.responses[k] = s_error_prefix \o run'.outcomes[k].text
         /\ model_loaded /\ model_loaded'
         /\ granite_components' = granite_components
         /\ \A j \in (k + 1)..Len(run'.outcomes) :
              ~run'.outcomes[j].raised =>
                run'.responses[j] = <<"o", "k">>]_vars

\* a run whose first generation raised and whose second one succeeded
C8_Witness ==
  /\ model_loaded
  /\ Len(run.outcomes) = 2
  /\ run.outcomes[1].raised
  /\ ~run.outcomes[2].raised
  /\ run.responses[2] = <<"o", "k">>

\* C9: in one process the body of load_granite_model runs at most once,
\* also when it failed; what it returned is kept as it is; the components
\* of a session are that kept value and, once set, stay set and unchanged
\* for the rest of the session.
C9_LoadOnce ==
  /\ [](loads <= 1)
  /\ [](granite_components # NotSet => granite_components = cache)
  /\ [][cache # NotSet => cache' = cache]_vars
  /\ [][(granite_components # NotSet /\ run'.load # "no run") =>
          granite_components' = granite_components]_vars

\* a later run after a failed load: the failure comes from the cache
C9_Witness ==
  /\ loads = 1
  /\ run.load = "cached failure"
  /\ ~model_loaded

\* C10: a run without a button leaves the three collections unchanged;
\* Optimize Message changes at most conversation_history, Generate Profile
\* Analysis at most user_profiles, Analyze Message at most
\* communication_analytics; Get Suggestions, Analyze Tone and Generate
\* Cultural Adaptations change none of them.
C10_Frame ==
  [][LET b == run'.button
         h == conversation_history' = conversation_history
         p == user_profiles' = user_profiles
         a == communication_analytics' = communication_analytics
     IN /\ b = B_None => h /\ p /\ a
        /\ b = B_Optimize => p /\ a
        /\ b = B_Profile => h /\ a
        /\ b = B_Analyze => h /\ p
        /\ b \in {B_Suggest, B_Tone, B_Adapt} => h /\ p /\ a]_vars

\* Get Suggestions answered by the model while records are stored
C10_Witness ==
  /\ run.button = B_Suggest
  /\ run.responses # <<>>
  /\ conversation_history # <<>>
  /\ DOMAIN user_profiles # {}

----------------------------------------------------------------------------
(* The stored snippet *)

\* t is the first Len(t) characters of u
IsPrefix(t, u) == Len(t) <= Len(u) /\ \A i \in 1..Len(t) : t[i] = u[i]

\* C12: every record appended to communication_analytics stores the analysed
\* text unchanged when it has at most 100 characters and otherwise its first
\* 100 characters followed by '...'; no stored snippet has more than 103
\* characters.
C12_Snippet ==
  /\ [](\A k \in DOMAIN communication_analytics :
          Len(communication_analytics[k].text) <= 103)
  /\ [][communication_analytics' # communication_analytics =>
         /\ run'.feature = F_ToneAnalyzer
         /\ Len(communication_analytics') = Len(communication_analytics) + 1
         /\ LET t == run'.inputs.analysis_text
                s == communication_analytics'[Len(communication_analytics')].text
            IN /\ Len(t) <= 100 => s = t
               /\ Len(t) > 100 =>
                    /\ Len(s) = 103
                    /\ IsPrefix(SubSeq(s, 1, 100), t)
                    /\ SubSeq(s, 101, 103) = <<".", ".", ".">>]_vars

\* a text of exactly 100 characters stored whole, then one of 101 cut
C12_Witness ==
  /\ Len(communication_analytics) = 2
  /\ Len(communication_analytics[1].text) = 100
  /\ Len(communication_analytics[2].text) = 103
  /\ run.feature = F_ToneAnalyzer
  /\ Len(run.inputs.analysis_text) = 101

----------------------------------------------------------------------------
(* The guards of the three storing handlers *)

\* C13: while model_loaded is False nothing is stored -- the three
\* collections are empty and no step from such a state changes them -- and
\* every stored record comes from a non-empty input: a conversation record
\* has a non-empty original, a profile a non-empty name, an analytics record
\* a non-empty text.
C13_Guards ==
  /\ [](~model_loaded =>
          /\ conversation_history = <<>>
          /\ user_profiles = EmptyDict
          /\ communication_analytics = <<>>)
  /\ [][~model_loaded =>
          UNCHANGED <<conversation_history, user_profiles,
                      communication_analytics>>]_vars
  /\ [](/\ \A k \in DOMAIN conversation_history :
             Len(conversation_history[k].original) > 0
        /\ \A name \in DOMAIN user_profiles : name # ""
        /\ \A k \in DOMAIN communication_analytics :
             Len(communication_analytics[k].text) > 0)

\* Optimize Message pressed with a draft while the model is not loaded
C13_Witness ==
  /\ ~model_loaded
  /\ run.rendered
  /\ run.button = B_Optimize
  /\ run.inputs.user_input # <<>>
  /\ conversation_history = <<>>

----------------------------------------------------------------------------
(* What Optimize Message records *)

\* C14: a press of Optimize Message with a non-empty draft while the model
\* is loaded appends exactly one conversation record; its original,
\* demographics and type are the submitted form values and its optimized
\* field is the value generate_response returned, which for a failed
\* generation is 'Error generating response: ' followed by the error text.
C14_OptimizeRecords ==
  [][(/\ run'.rendered
      /\ run'.feature = F_Composer
      /\ run'.button = B_Optimize
      /\ run'.inputs.user_input # <<>>
      /\ model_loaded) =>
       /\ Len(conversation_history') = Len(conversation_history) + 1
       /\ SubSeq(conversation_history', 1, Len(conversation_history))
            = conversation_history
       /\ LET r == conversation_history'[Len(conversation_history')] IN
           /\ r.original = run'.inputs.user_input
           /\ r.demographics = run'.inputs.target_demographic
           /\ r.type = run'.inputs.message_type
           /\ Len(run'.responses) = 1
           /\ r.optimized = run'.responses[1]
           /\ run'.outcomes[1].raised =>
                r.optimized = s_error_prefix \o run'.outcomes[1].text]_vars

\* a failed generation recorded after a successful one
C14_Witness ==
  /\ Len(conversation_history) = 2
  /\ run.rendered /\ run.feature = F_Composer /\ run.button = B_Optimize
  /\ run.outcomes[1].raised
  /\ conversation_history[2].optimized = s_error_prefix \o <<"o", "o", "m">>
  /\ conversation_history[2].demographics = <<"Students">>
  /\ ~(conversation_history[1].optimized = conversation_history[2].optimized)

----------------------------------------------------------------------------
(* model_loaded and the components *)

\* C15: model_loaded is True only when granite_components is set with a
\* tokenizer and a model that are not None, and model_loaded, once True,
\* stays True for the rest of the session.
C15_LoadedFlag ==
  /\ [](model_loaded =>
          /\ granite_components # NotSet
          /\ granite_components[1] # None
          /\ granite_components[2] # None)
  /\ [][model_loaded => model_loaded']_vars

\* a run of a feature with the model loaded, after the run that loaded it
C15_Witness ==
  /\ model_loaded
  /\ granite_components # NotSet
  /\ run.rendered
  /\ Stored > 0

----------------------------------------------------------------------------
(* The analytics dashboard *)

\* C16: with n > 0 records in conversation_history the dashboard shows
\* Total Messages = n and the min(n, 10) records appended last, newest
\* first, and no notice; with an empty history it shows no metric and no
\* message, only the notice that there is no data.
C16_Dashboard ==
  (run.rendered /\ run.feature = F_Analytics) =>
    LET n == Len(conversation_history)
        shown == IF n < 10 THEN n ELSE 10
    IN IF n > 0
       THEN /\ run.view.metrics = <<n>>
            /\ Len(run.view.recent) = shown
            /\ \A i \in 1..shown :
                 run.view.recent[i] = conversation_history[n + 1 - i]
            /\ ~run.view.notice
       ELSE /\ run.view.metrics = <<>>
            /\ run.view.recent = <<>>
            /\ run.view.notice

\* eleven records, the oldest unlike the second oldest and the newest unlike
\* the one before it: ten are listed, from the newest down to the second
C16_Witness ==
  /\ run.rendered /\ run.feature = F_Analytics
  /\ Len(conversation_history) = 11
  /\ conversation_history[1] # conversation_history[2]
  /\ conversation_history[10] # conversation_history[11]
  /\ run.view.metrics = <<11>>
  /\ Len(run.view.recent) = 10
  /\ run.view.recent[1] = conversation_history[11]
  /\ run.view.recent[10] = conversation_history[2]

====

